---- MODULE Spec2Model ----
(***************************************************************************)
(* The spotify_analysis notebook as a state machine: one action per code   *)
(* cell, executed top to bottom by "Run All", which stops at the first     *)
(* cell that raises.                                                       *)
(*                                                                         *)
(* Names (artist, album, song) are modelled by their rank in lexicographic *)
(* order, so that the order of group keys is the order of integers.        *)
(* Durations are exact fixed-point numbers: an integer v stands for the    *)
(* quantity v / Scale.  The notebook computes in binary floating point: a  *)
(* sum that is exactly half-way between two values of round(2) is held as  *)
(* a double just below, just above or on the half-way point, so that its   *)
(* rounding goes down or up; both are outcomes here.  The order in which a *)
(* sort leaves rows of equal value is not specified by the default sort    *)
(* kind and is a nondeterministic choice as well.                          *)
(***************************************************************************)
EXTENDS Integers, Sequences, FiniteSets, TLC

\* Bounds of the enumerated inputs.
MaxRows == 2
NumFill == 14

\* head(15)
TopN == 15

\* Missing values: NaN in a name column, NaT / null in the timestamp column.
NaN == -1
NaT == <<>>

\* Fixed-point denominator: minutes, hours and days are all exact in it.
Scale == 60000 * 60 * 24
MsPerMin == 60000
MinPerHour == 60
HourPerDay == 24

\* Characters of formatted text: the digits 0..9 and the dash.
Dash == 10

ArtistCol == "master_metadata_album_artist_name"
AlbumCol == "master_metadata_album_album_name"
SongCol == "master_metadata_track_name"
RawCols == {"ts", "ms_played", ArtistCol, AlbumCol, SongCol}

VARIABLES
    dir,                  \* listing of data/: the files in enumeration order
    pc,                   \* the next cell to run, or "aborted" / "done"
    err,                  \* the cell that raised, or "none"
    bound,                \* the names bound in the kernel's namespace
    shown,                \* the outputs displayed so far
    columns,              \* the columns of df
    df,
    list_time_by_artist,
    list_time_by_album,
    list_time_by_song,
    top_15_artists,
    filtered_df,
    list_time_by_month,
    nunique_by_year

vars == <<dir, pc, err, bound, shown, columns, df, list_time_by_artist,
          list_time_by_album, list_time_by_song, top_15_artists, filtered_df,
          list_time_by_month, nunique_by_year>>

tables == <<list_time_by_artist, list_time_by_album, list_time_by_song,
            top_15_artists, filtered_df, list_time_by_month, nunique_by_year>>

----------------------------------------------------------------------------
(* Generic helpers *)

Min(a, b) == IF a < b THEN a ELSE b

RECURSIVE Concat(_)
Concat(ss) == IF ss = <<>> THEN <<>> ELSE Head(ss) \o Concat(Tail(ss))

RECURSIVE SumOver(_, _)
SumOver(f, I) ==
    IF I = {} THEN 0
    ELSE LET i == CHOOSE x \in I : TRUE IN f[i] + SumOver(f, I \ {i})

\* Text of a non-negative integer, zero-padded to width w.
RECURSIVE Digits(_, _)
Digits(n, w) == IF w = 0 THEN <<>> ELSE Digits(n \div 10, w - 1) \o <<n % 10>>

\* int(text) of a digit string.
RECURSIVE ParseInt(_)
ParseInt(s) ==
    IF s = <<>> THEN 0 ELSE 10 * ParseInt(SubSeq(s, 1, Len(s) - 1)) + s[Len(s)]

----------------------------------------------------------------------------
(* The input: the files of data/ *)

\* ISO text "YYYY-MM" of a timestamp, as the export writes it.
IsoText(y, m) == Digits(y, 4) \o <<Dash>> \o Digits(m, 2)

RawTs == {IsoText(2022, 12), IsoText(2023, 1)}
\* The catalogue, <<artist, album, song>> and the milliseconds of one play: a
\* podcast episode (no music metadata), a song of each of two artists on a
\* compilation album, and a longer song of the second artist on an album of
\* their own.
Catalogue == { [track |-> <<NaN, NaN, NaN>>, ms |-> 800],
               [track |-> <<1, 1, 1>>, ms |-> 600],
               [track |-> <<2, 1, 2>>, ms |-> 600],
               [track |-> <<2, 2, 3>>, ms |-> 800] }

RawRecord(ts, ms, track) ==
    [c \in RawCols |-> CASE c = "ts" -> ts
                         [] c = "ms_played" -> ms
                         [] c = ArtistCol -> track[1]
                         [] c = AlbumCol -> track[2]
                         [] c = SongCol -> track[3]]

RawRecords == {RawRecord(ts, c.ms, c.track) : ts \in RawTs, c \in Catalogue}

FreeTables == UNION {[1..n -> RawRecords] : n \in 0..MaxRows}

\* A block of NumFill further artists, one play each, every one played longer
\* than any artist of the catalogue, in distinct years and of distinct lengths.
FillFile == [k \in 1..NumFill |->
                RawRecord(IsoText(2000 + k + 3, 6), 6000 * (k + 3) + 600,
                          <<k + 3, k + 3, k + 3>>)]

Without(rec, c) == [x \in (DOMAIN rec) \ {c} |-> rec[x]]
DropColumn(recs, c) == [i \in DOMAIN recs |-> Without(recs[i], c)]

JsonFile(recs) == [ext |-> "json", parses |-> TRUE, recs |-> recs]
BadFile == [ext |-> "json", parses |-> FALSE, recs |-> <<>>]
TextFile == [ext |-> "txt", parses |-> FALSE, recs |-> <<>>]

\* The last record with a null timestamp.
NullLastTs(recs) ==
    [i \in DOMAIN recs |->
        IF i = Len(recs) THEN [recs[i] EXCEPT !["ts"] = <<>>] ELSE recs[i]]

\* A listing is the plain export split into two files, or departs from it in
\* one way: a block of further artists, a file that is not .json, a file that
\* does not parse, a missing metadata column, a null timestamp.
Scenarios == {"plain", "fill", "text", "bad_first", "bad_last",
              "no_artist", "no_album", "no_song", "null_ts"}

Listing(free, k, sc) ==
    LET a == SubSeq(free, 1, k)
        b == SubSeq(free, k + 1, Len(free))
    IN CASE sc = "plain" -> <<JsonFile(a), JsonFile(b)>>
         [] sc = "null_ts" -> <<JsonFile(SubSeq(NullLastTs(free), 1, k)),
                                JsonFile(SubSeq(NullLastTs(free), k + 1, Len(free)))>>
         [] sc = "fill" -> <<JsonFile(FillFile), JsonFile(a), JsonFile(b)>>
         [] sc = "text" -> IF k = 0 THEN <<TextFile>>
                           ELSE <<JsonFile(a), TextFile, JsonFile(b)>>
         [] sc = "bad_first" -> <<BadFile, JsonFile(a), JsonFile(b)>>
         [] sc = "bad_last" -> <<JsonFile(a), JsonFile(b), BadFile>>
         [] sc = "no_artist" -> <<JsonFile(DropColumn(a, ArtistCol)),
                                  JsonFile(DropColumn(b, ArtistCol))>>
         [] sc = "no_album" -> <<JsonFile(DropColumn(a, AlbumCol)),
                                 JsonFile(DropColumn(b, AlbumCol))>>
         [] sc = "no_song" -> <<JsonFile(DropColumn(a, SongCol)),
                                JsonFile(DropColumn(b, SongCol))>>

\* Two files of one play each: X for one minute, Y for two.
ScenarioTwoFiles ==
    <<JsonFile(<<RawRecord(IsoText(2023, 1), 60000, <<1, 1, 1>>)>>),
      JsonFile(<<RawRecord(IsoText(2023, 6), 120000, <<2, 1, 2>>)>>)>>

\* 2022 with artists A, B, A and a podcast episode, 2023 with artists A, C.
ScenarioDistinctArtists ==
    <<JsonFile(<<RawRecord(IsoText(2022, 3), 600, <<1, 1, 1>>),
                 RawRecord(IsoText(2022, 3), 800, <<NaN, NaN, NaN>>),
                 RawRecord(IsoText(2022, 4), 600, <<2, 1, 2>>),
                 RawRecord(IsoText(2022, 5), 600, <<1, 1, 1>>),
                 RawRecord(IsoText(2023, 3), 600, <<1, 1, 1>>),
                 RawRecord(IsoText(2023, 4), 600, <<3, 4, 4>>)>>)>>

\* Sums on half-way points of round(2): two artists with 0.545 minutes each,
\* one of them in two plays, and an artist with 1.015 minutes.
ScenarioHalfWay ==
    <<JsonFile(<<RawRecord(IsoText(2023, 1), 32700, <<1, 1, 1>>),
                 RawRecord(IsoText(2023, 2), 30000, <<2, 1, 2>>),
                 RawRecord(IsoText(2023, 3), 2700, <<2, 2, 3>>),
                 RawRecord(IsoText(2023, 4), 60900, <<3, 4, 4>>)>>)>>

----------------------------------------------------------------------------
(* Loader *)

\* f.endswith('.json')
EndsWithJson(f) == f.ext = "json"

json_files(d) == SelectSeq(d, EndsWithJson)

\* The columns of a frame: none for an empty record list.
ColumnsOf(recs) == UNION {DOMAIN recs[i] : i \in DOMAIN recs}

\* Variant: every file's frame overwrites the previous one.
read_jsons_to_df_last(d) ==
    LET fs == json_files(d)
    IN IF fs = <<>> \/ \E i \in DOMAIN fs : ~fs[i].parses
       THEN [ok |-> FALSE, rows |-> <<>>]
       ELSE [ok |-> TRUE, rows |-> fs[Len(fs)].recs]

\* Variant: a file that does not parse is skipped.
read_jsons_to_df_skip(d) ==
    LET fs == SelectSeq(json_files(d), LAMBDA f : f.parses)
    IN [ok |-> TRUE, rows |-> Concat([i \in DOMAIN fs |-> fs[i].recs])]

\* read_jsons_to_df: ok is FALSE when pd.read_json or pd.concat raises.
read_jsons_to_df(d) ==
    LET fs == json_files(d)
    IN IF fs = <<>> \/ \E i \in DOMAIN fs : ~fs[i].parses
       THEN [ok |-> FALSE, rows |-> <<>>]
       ELSE [ok |-> TRUE,
             rows |-> Concat([i \in DOMAIN fs |-> fs[i].recs])]

----------------------------------------------------------------------------

Init ==
    /\ \/ \E free \in FreeTables, sc \in Scenarios :
            \E k \in 0..Len(free) : dir = Listing(free, k, sc)
       \/ dir \in {ScenarioTwoFiles, ScenarioDistinctArtists, ScenarioHalfWay}
    /\ pc = "load"
    /\ err = "none"
    /\ bound = {}
    /\ shown = {}
    /\ columns = {}
    /\ df = <<>>
    /\ list_time_by_artist = <<>>
    /\ list_time_by_album = <<>>
    /\ list_time_by_song = <<>>
    /\ top_15_artists = <<>>
    /\ filtered_df = <<>>
    /\ list_time_by_month = <<>>
    /\ nunique_by_year = <<>>

Abort(cell) ==
    /\ pc' = "aborted"
    /\ err' = cell

\* df = read_jsons_to_df('data/')
Load ==
    /\ pc = "load"
    /\ LET r == read_jsons_to_df(dir)
       IN IF r.ok
          THEN /\ df' = r.rows
               /\ columns' = ColumnsOf(r.rows)
               /\ bound' = bound \cup {"df"}
               /\ pc' = "to_datetime"
               /\ err' = err
          ELSE /\ Abort("load")
               /\ UNCHANGED <<df, columns, bound>>
    /\ UNCHANGED <<dir, shown, tables>>

----------------------------------------------------------------------------
(* Enricher *)

\* Row r with the columns of n added or overwritten.
Assign(r, n) ==
    [c \in (DOMAIN r) \cup (DOMAIN n) |-> IF c \in DOMAIN n THEN n[c] ELSE r[c]]

\* pd.to_datetime of one value: null becomes NaT, ISO text is parsed into
\* <<year, month>>.
to_datetime(text) ==
    IF text = <<>> THEN NaT
    ELSE <<ParseInt(SubSeq(text, 1, 4)), ParseInt(SubSeq(text, 6, 7))>>

\* .dt.strftime: the missing value for NaT (written <<>>), else the text.
strftime_Y(t) == IF t = NaT THEN <<>> ELSE Digits(t[1], 4)
strftime_m(t) == IF t = NaT THEN <<>> ELSE Digits(t[2], 2)
strftime_Ym(t) == IF t = NaT THEN <<>> ELSE Digits(t[1], 4) \o <<Dash>> \o Digits(t[2], 2)

\* .astype(int) raises on a missing value.
astype_int_raises(texts) == \E i \in DOMAIN texts : texts[i] = <<>>

\* df['ts'] = pd.to_datetime(df['ts'])
ToDatetime ==
    /\ pc = "to_datetime"
    /\ IF "ts" \in columns
       THEN /\ df' = [i \in DOMAIN df |->
                        [df[i] EXCEPT !["ts"] = to_datetime(@)]]
            /\ pc' = "add_date_cols"
            /\ err' = err
       ELSE /\ Abort("to_datetime")
            /\ df' = df
    /\ UNCHANGED <<dir, bound, shown, columns, tables>>

\* df['Year'], df['Month'], df['YYYY-MM']
AddDateCols ==
    /\ pc = "add_date_cols"
    /\ IF astype_int_raises([i \in DOMAIN df |-> strftime_Y(df[i]["ts"])])
       THEN /\ Abort("add_date_cols")
            /\ UNCHANGED <<df, columns>>
       ELSE /\ df' = [i \in DOMAIN df |->
                        Assign(df[i],
                               [Year |-> ParseInt(strftime_Y(df[i]["ts"])),
                                Month |-> ParseInt(strftime_m(df[i]["ts"]))]
                               @@ ("YYYY-MM" :> strftime_Ym(df[i]["ts"])))]
            /\ columns' = columns \cup {"Year", "Month", "YYYY-MM"}
            /\ pc' = "add_duration_cols"
            /\ err' = err
    /\ UNCHANGED <<dir, bound, shown, tables>>

mins_of(ms) == ms * (Scale \div MsPerMin)
hours_of(mins) == mins \div MinPerHour
days_of(hours) == hours \div HourPerDay

\* df['mins_played'], df['hours_played'], df['days_played']
AddDurationCols ==
    /\ pc = "add_duration_cols"
    /\ IF "ms_played" \in columns
       THEN /\ df' = [i \in DOMAIN df |->
                        LET mins == mins_of(df[i]["ms_played"])
                        IN Assign(df[i],
                                  [mins_played |-> mins,
                                   hours_played |-> hours_of(mins),
                                   days_played |-> days_of(hours_of(mins))])]
            /\ columns' = columns \cup {"mins_played", "hours_played", "days_played"}
            /\ pc' = "rename"
            /\ err' = err
       ELSE /\ Abort("add_duration_cols")
            /\ UNCHANGED <<df, columns>>
    /\ UNCHANGED <<dir, bound, shown, tables>>

\* The columns= mapping of df.rename.
RenameMap == (ArtistCol :> "artist") @@ (AlbumCol :> "album") @@ (SongCol :> "song")

NewName(c) == IF c \in DOMAIN RenameMap THEN RenameMap[c] ELSE c

\* Variant: errors='raise'.
rename_raises_strict(cols) == (DOMAIN RenameMap) \ cols

\* The mapping keys for which rename raises: none, errors='ignore' is the
\* default.
rename_raises(cols) == {}

\* df.rename(columns={...}, inplace=True)
Rename ==
    /\ pc = "rename"
    /\ IF rename_raises(columns) = {}
       THEN /\ columns' = {NewName(c) : c \in columns}
            /\ df' = [i \in DOMAIN df |->
                        [n \in {NewName(c) : c \in columns} |->
                            df[i][CHOOSE c \in columns : NewName(c) = n]]]
            /\ pc' = "agg_artist"
            /\ err' = err
       ELSE /\ Abort("rename")
            /\ UNCHANGED <<df, columns>>
    /\ UNCHANGED <<dir, bound, shown, tables>>

----------------------------------------------------------------------------
(* Aggregator *)

\* The group key of a row: one value per grouping column.
KeyOf(r, keys) == [i \in 1..Len(keys) |-> r[keys[i]]]

HasNaN(k) == \E i \in DOMAIN k : k[i] = NaN

LexLess(a, b) ==
    \E i \in DOMAIN a : a[i] < b[i] /\ \A j \in 1..(i - 1) : a[j] = b[j]

\* Keys in ascending order (groupby sorts the group keys).
RECURSIVE SortKeys(_)
SortKeys(S) ==
    IF S = {} THEN <<>>
    ELSE LET m == CHOOSE k \in S : \A o \in S \ {k} : LexLess(k, o)
         IN <<m>> \o SortKeys(S \ {m})

\* Variant: dropna=False.
GroupKeys_keepna(t, keys) == {KeyOf(t[i], keys) : i \in DOMAIN t}

\* The keys groupby forms: rows with a missing key value belong to no group.
GroupKeys(t, keys) ==
    {k \in {KeyOf(t[i], keys) : i \in DOMAIN t} : ~HasNaN(k)}

ColSum(t, I, col) == SumOver([i \in DOMAIN t |-> t[i][col]], I)

\* df.groupby(keys).agg(sum of the three measures).set_axis(...)
GroupAgg(t, keys) ==
    LET ks == SortKeys(GroupKeys(t, keys))
    IN [g \in 1..Len(ks) |->
          LET I == {i \in DOMAIN t : KeyOf(t[i], keys) = ks[g]}
          IN [index |-> ks[g],
              mins_played |-> ColSum(t, I, "mins_played"),
              hours_played |-> ColSum(t, I, "hours_played"),
              days_played |-> ColSum(t, I, "days_played")]]

\* Variant: the sort direction inverted.
RECURSIVE SortOrders_flipped(_, _, _)
SortOrders_flipped(I, v, ascending) ==
    IF I = {} THEN {<<>>}
    ELSE LET first == {i \in I : \A j \in I :
                          IF ascending THEN v[i] >= v[j] ELSE v[i] <= v[j]}
         IN UNION {{<<i>> \o s : s \in SortOrders_flipped(I \ {i}, v, ascending)} :
                      i \in first}

\* The orders a sort may produce: sorted by v, rows of equal value in any
\* order (the default sort kind is not stable).
RECURSIVE SortOrders(_, _, _)
SortOrders(I, v, ascending) ==
    IF I = {} THEN {<<>>}
    ELSE LET first == {i \in I : \A j \in I :
                          IF ascending THEN v[i] <= v[j] ELSE v[i] >= v[j]}
         IN UNION {{<<i>> \o s : s \in SortOrders(I \ {i}, v, ascending)} : i \in first}

\* Variant: the sort left out.
sort_values_unsorted(t, col, ascending) == {t}

\* t.sort_values(col, ascending=...): the set of possible results.
sort_values(t, col, ascending) ==
    {[k \in DOMAIN t |-> t[o[k]]] :
        o \in SortOrders(DOMAIN t, [i \in DOMAIN t |-> t[i][col]], ascending)}

\* The integers that rounding the double of x / q to the nearest integer can
\* give, for x >= 0.  The double differs from the exact quotient by far less
\* than 1 / q, so it rounds as the quotient does unless the quotient is
\* half-way: the double of a half-way value lies just below it, just above it
\* or on it, and rounds down or up accordingly.
RoundNearest(x, q) ==
    LET d == x \div q
        r == x % q
    IN IF 2 * r < q THEN {d}
       ELSE IF 2 * r > q THEN {d + 1}
       ELSE {d, d + 1}

\* round(v, 2) in fixed point: the values it can give.
round2(v) == {n * (Scale \div 100) : n \in RoundNearest(v, Scale \div 100)}

\* The roundings of one row, each measure on its own.
RowRounds(r) ==
    {[r EXCEPT !.mins_played = m, !.hours_played = h, !.days_played = d] :
        m \in round2(r.mins_played),
        h \in round2(r.hours_played),
        d \in round2(r.days_played)}

RECURSIVE RoundRows(_)
RoundRows(t) ==
    IF t = <<>> THEN {<<>>}
    ELSE {<<r>> \o rest : r \in RowRounds(Head(t)), rest \in RoundRows(Tail(t))}

\* t.round(2) of a table that sort_values left in non-increasing order of the
\* doubles of mins_played: rounding a double is monotone, so the rounded
\* mins_played of an earlier row is not below that of a later row.
round(t) ==
    {u \in RoundRows(t) :
        \A i, j \in DOMAIN t :
            (i < j /\ t[i].mins_played >= t[j].mins_played)
                => u[i].mins_played >= u[j].mins_played}

\* t.head(n)
head(t, n) == SubSeq(t, 1, Min(n, Len(t)))

\* The cell of one all-time ranking: group, sum, sort, round, display.
\* Its results, or the empty set when groupby raises KeyError.
RankingCell(key) ==
    IF key \in columns
    THEN UNION {round(t) :
                   t \in sort_values(GroupAgg(df, <<key>>), "mins_played", FALSE)}
    ELSE {}

\* Top played artists of all time
AggArtist ==
    /\ pc = "agg_artist"
    /\ IF RankingCell("artist") # {}
       THEN /\ list_time_by_artist' \in RankingCell("artist")
            /\ bound' = bound \cup {"list_time_by_artist"}
            /\ shown' = shown \cup {"list_time_by_artist"}
            /\ pc' = "agg_album"
            /\ err' = err
       ELSE /\ Abort("agg_artist")
            /\ UNCHANGED <<list_time_by_artist, bound, shown>>
    /\ UNCHANGED <<dir, columns, df, list_time_by_album, list_time_by_song,
                   top_15_artists, filtered_df, list_time_by_month,
                   nunique_by_year>>

\* Top played albums of all time
AggAlbum ==
    /\ pc = "agg_album"
    /\ IF RankingCell("album") # {}
       THEN /\ list_time_by_album' \in RankingCell("album")
            /\ bound' = bound \cup {"list_time_by_album"}
            /\ shown' = shown \cup {"list_time_by_album"}
            /\ pc' = "agg_song"
            /\ err' = err
       ELSE /\ Abort("agg_album")
            /\ UNCHANGED <<list_time_by_album, bound, shown>>
    /\ UNCHANGED <<dir, columns, df, list_time_by_artist, list_time_by_song,
                   top_15_artists, filtered_df, list_time_by_month,
                   nunique_by_year>>

\* Top played songs of all time
AggSong ==
    /\ pc = "agg_song"
    /\ IF RankingCell("song") # {}
       THEN /\ list_time_by_song' \in RankingCell("song")
            /\ bound' = bound \cup {"list_time_by_song"}
            /\ shown' = shown \cup {"list_time_by_song"}
            /\ pc' = "top_15"
            /\ err' = err
       ELSE /\ Abort("agg_song")
            /\ UNCHANGED <<list_time_by_song, bound, shown>>
    /\ UNCHANGED <<dir, columns, df, list_time_by_artist, list_time_by_album,
                   top_15_artists, filtered_df, list_time_by_month,
                   nunique_by_year>>

\* The artists of a ranking's index.
IndexOf(t) == {t[i].index[1] : i \in DOMAIN t}

\* df[df['artist'].isin(index)]
isin_filter(t, index) == SelectSeq(t, LAMBDA r : r["artist"] \in index)

\* top_15_artists and filtered_df: the ranking read here is the rounded one
\* the artist cell left behind.
Top15 ==
    /\ pc = "top_15"
    /\ \E s \in sort_values(list_time_by_artist, "mins_played", FALSE) :
         /\ top_15_artists' = head(s, TopN)
         /\ filtered_df' = isin_filter(df, IndexOf(head(s, TopN)))
    /\ bound' = bound \cup {"top_15_artists", "filtered_df"}
    /\ pc' = "agg_month"
    /\ UNCHANGED <<dir, err, shown, columns, df, list_time_by_artist,
                   list_time_by_album, list_time_by_song, list_time_by_month,
                   nunique_by_year>>

\* t.reset_index() of an artist x Year aggregate
reset_index(t) ==
    [i \in DOMAIN t |-> [artist |-> t[i].index[1],
                         Year |-> t[i].index[2],
                         mins_played |-> t[i].mins_played,
                         hours_played |-> t[i].hours_played,
                         days_played |-> t[i].days_played]]

\* Group by month and artist
AggMonth ==
    /\ pc = "agg_month"
    /\ \E t \in sort_values(GroupAgg(filtered_df, <<"artist", "Year">>),
                            "mins_played", FALSE) :
         \E u \in round(t) : list_time_by_month' = reset_index(u)
    /\ bound' = bound \cup {"list_time_by_month"}
    /\ pc' = "plot_month"
    /\ UNCHANGED <<dir, err, shown, columns, df, list_time_by_artist,
                   list_time_by_album, list_time_by_song, top_15_artists,
                   filtered_df, nunique_by_year>>

\* Sort by Year and plot the line chart
PlotMonth ==
    /\ pc = "plot_month"
    /\ list_time_by_month' \in sort_values(list_time_by_month, "Year", TRUE)
    /\ shown' = shown \cup {"fig_top_15"}
    /\ pc' = "nunique"
    /\ UNCHANGED <<dir, err, bound, columns, df, list_time_by_artist,
                   list_time_by_album, list_time_by_song, top_15_artists,
                   filtered_df, nunique_by_year>>

\* Variant: dropna=False.
nunique_count(t, I, col) == Cardinality({t[i][col] : i \in I})

\* Series.nunique(): the number of distinct values, missing ones not counted.
nunique(t, I, col) == Cardinality({t[i][col] : i \in I} \ {NaN})

\* df.groupby('Year').agg({'artist': ['nunique']}).set_axis(...).reset_index()
NuniqueAgg(t) ==
    LET ks == SortKeys(GroupKeys(t, <<"Year">>))
    IN [g \in 1..Len(ks) |->
          [Year |-> ks[g][1],
           number_artists |->
               nunique(t, {i \in DOMAIN t : t[i]["Year"] = ks[g][1]}, "artist")]]

\* Distinct count of artists per year, and its chart
NuniqueYear ==
    /\ pc = "nunique"
    /\ nunique_by_year' = NuniqueAgg(df)
    /\ bound' = bound \cup {"nunique_by_year"}
    /\ shown' = shown \cup {"fig_nunique"}
    /\ pc' = "done"
    /\ UNCHANGED <<dir, err, columns, df, list_time_by_artist,
                   list_time_by_album, list_time_by_song, top_15_artists,
                   filtered_df, list_time_by_month>>

Next ==
    \/ Load
    \/ ToDatetime
    \/ AddDateCols
    \/ AddDurationCols
    \/ Rename
    \/ AggArtist
    \/ AggAlbum
    \/ AggSong
    \/ Top15
    \/ AggMonth
    \/ PlotMonth
    \/ NuniqueYear

Spec == Init /\ [][Next]_vars

----------------------------------------------------------------------------
(* Properties *)

InputFiles == json_files(dir)

AllParse ==
    /\ InputFiles # <<>>
    /\ \A i \in DOMAIN InputFiles : InputFiles[i].parses

\* The number of records in the input files before file i.
Offset(i) == SumOver([j \in DOMAIN InputFiles |-> Len(InputFiles[j].recs)], 1..(i - 1))

TotalRows == Offset(Len(InputFiles) + 1)

\* C1: when every .json file parses, the loaded table is the records of the
\* files in enumeration order, each file's records in their own order: row
\* Offset(i) + k is record k of file i and there are exactly c1 + ... + cn
\* rows; no later cell adds, drops or moves a row.
C1_Concatenation ==
    (AllParse /\ pc # "load") =>
        /\ "df" \in bound
        /\ Len(df) = TotalRows
        /\ \A i \in DOMAIN InputFiles : \A k \in DOMAIN InputFiles[i].recs :
             /\ pc = "to_datetime" => df[Offset(i) + k] = InputFiles[i].recs[k]
             /\ df[Offset(i) + k]["ms_played"] = InputFiles[i].recs[k]["ms_played"]

C1_Witness ==
    /\ pc = "to_datetime"
    /\ \E i, j \in DOMAIN InputFiles :
         /\ i < j
         /\ InputFiles[i].recs # <<>>
         /\ InputFiles[j].recs # <<>>
    /\ \E i \in DOMAIN dir : ~EndsWithJson(dir[i])

Total(f) == SumOver(f, DOMAIN f)

\* C2: the per-artist sums of minutes played add up to the minutes played of
\* the rows with an artist; a row without an artist is in no group.
C2_SumConservation ==
    ({"artist", "mins_played"} \subseteq columns) =>
        LET g == GroupAgg(df, <<"artist">>)
        IN /\ Total([i \in DOMAIN g |-> g[i].mins_played])
                = Total([i \in DOMAIN df |->
                           IF df[i]["artist"] = NaN THEN 0 ELSE df[i]["mins_played"]])
           /\ \A i \in DOMAIN g : g[i].index[1] # NaN

C2_Witness ==
    /\ pc = "agg_album"
    /\ \E i \in DOMAIN df : df[i]["artist"] = NaN
    /\ Len(list_time_by_artist) >= 2
    /\ \E i, j \in DOMAIN df :
         i # j /\ df[i]["artist"] = df[j]["artist"] /\ df[i]["artist"] # NaN

\* The full-precision sum of minutes played of the rows whose column col is key.
GroupTotal(col, key) ==
    ColSum(df, {i \in DOMAIN df : df[i][col] = key}, "mins_played")

NamesIn(col) == {df[i][col] : i \in DOMAIN df} \ {NaN}

SeriesArtists == {list_time_by_month[i].artist : i \in DOMAIN list_time_by_month}

\* C3: the artists of the artist x Year series are at most TopN, and none of
\* them has a strictly smaller all-time full-precision sum than an artist
\* left out.
C3_Top15Containment ==
    ("list_time_by_month" \in bound) =>
        /\ Cardinality(SeriesArtists) <= TopN
        /\ \A a \in SeriesArtists : \A b \in NamesIn("artist") \ SeriesArtists :
             GroupTotal("artist", b) <= GroupTotal("artist", a)

NonIncreasing(t) ==
    \A i \in 1..(Len(t) - 1) : t[i].mins_played >= t[i + 1].mins_played

\* C4: the rows of the artist, album and song rankings are in non-increasing
\* order of summed minutes played.
C4_NonIncreasing ==
    /\ NonIncreasing(list_time_by_artist)
    /\ NonIncreasing(list_time_by_album)
    /\ NonIncreasing(list_time_by_song)

C4_Witness ==
    /\ pc = "top_15"
    /\ \E i \in 1..(Len(list_time_by_artist) - 1) :
         list_time_by_artist[i].mins_played > list_time_by_artist[i + 1].mins_played
    /\ \E i \in 1..(Len(list_time_by_album) - 1) :
         list_time_by_album[i].mins_played > list_time_by_album[i + 1].mins_played
    /\ \E i \in 1..(Len(list_time_by_song) - 1) :
         list_time_by_song[i].mins_played > list_time_by_song[i + 1].mins_played

\* The row of df in which a name is first met.
FirstRow(col, key) ==
    CHOOSE i \in DOMAIN df :
        df[i][col] = key /\ \A j \in 1..(i - 1) : df[j][col] # key

\* C5 as stated: two artists with equal summed minutes played appear in the
\* artist ranking in the order in which they are first met in the table.
C5_EncounterOrder ==
    ("list_time_by_artist" \in bound) =>
        \A i, j \in DOMAIN list_time_by_artist :
            LET a == list_time_by_artist[i].index[1]
                b == list_time_by_artist[j].index[1]
            IN (i < j /\ GroupTotal("artist", a) = GroupTotal("artist", b))
                   => FirstRow("artist", a) < FirstRow("artist", b)

RankedBySum(t, col) ==
    LET total == [i \in DOMAIN t |-> GroupTotal(col, t[i].index[1])]
    IN /\ \A i, j \in DOMAIN t :
            i < j => total[i] >= total[j] /\ t[i].index[1] # t[j].index[1]
       /\ {t[i].index[1] : i \in DOMAIN t} = NamesIn(col)

\* top_15_artists is made of the first rows of the rounded artist ranking in
\* an order of their rounded sums: at most TopN rows, each artist once,
\* non-increasing in the rounded sum, and no row left out has a larger
\* rounded sum than a row kept.
TopRowsByRoundedSum ==
    /\ Len(top_15_artists) = Min(TopN, Len(list_time_by_artist))
    /\ \A i, j \in DOMAIN top_15_artists :
         i < j => /\ top_15_artists[i].mins_played >= top_15_artists[j].mins_played
                  /\ top_15_artists[i].index[1] # top_15_artists[j].index[1]
    /\ \A i \in DOMAIN top_15_artists :
         \E k \in DOMAIN list_time_by_artist :
            list_time_by_artist[k] = top_15_artists[i]
    /\ \A k \in DOMAIN list_time_by_artist :
         list_time_by_artist[k].index[1] \notin IndexOf(top_15_artists)
            => \A i \in DOMAIN top_15_artists :
                  list_time_by_artist[k].mins_played <= top_15_artists[i].mins_played

\* The full-precision minutes of an artist in a year.
PairTotal(a, y) ==
    ColSum(df, {i \in DOMAIN df : df[i]["artist"] = a /\ df[i]["Year"] = y},
           "mins_played")

\* The artist x Year table holds every (artist, Year) of the selected artists
\* once; as aggregated it is ordered by the full-precision sums of its groups,
\* and once the chart cell has run it is in ascending order of Year.
MonthTableOrder ==
    LET t == list_time_by_month
        total == [i \in DOMAIN t |-> PairTotal(t[i].artist, t[i].Year)]
    IN /\ {<<t[i].artist, t[i].Year>> : i \in DOMAIN t}
            = {<<df[r]["artist"], df[r]["Year"]>> :
                  r \in {x \in DOMAIN df : df[x]["artist"] \in IndexOf(top_15_artists)}}
       /\ \A i, j \in DOMAIN t :
            i < j => /\ <<t[i].artist, t[i].Year>> # <<t[j].artist, t[j].Year>>
                     /\ IF pc = "plot_month"
                        THEN total[i] >= total[j]
                        ELSE t[i].Year <= t[j].Year

\* C5 amended: no aggregation result is ordered by encounter order.  The
\* artist, album and song rankings hold every name once and order names by
\* their full-precision sums only: a name with a larger sum comes first, and
\* names with equal sums come in an order that the encounter order does not
\* fix.  top_15_artists is ordered by the rounded sums of the artist ranking,
\* the artist x Year table by the full-precision sums of its groups and, after
\* the chart cell, by Year; the distinct-artists table is in ascending order
\* of Year.
C5_OrderOnlyBySum ==
    /\ ("list_time_by_artist" \in bound) => RankedBySum(list_time_by_artist, "artist")
    /\ ("list_time_by_album" \in bound) => RankedBySum(list_time_by_album, "album")
    /\ ("list_time_by_song" \in bound) => RankedBySum(list_time_by_song, "song")
    /\ ("top_15_artists" \in bound) => TopRowsByRoundedSum
    /\ ("list_time_by_month" \in bound) => MonthTableOrder
    /\ \A i, j \in DOMAIN nunique_by_year :
         i < j => nunique_by_year[i].Year < nunique_by_year[j].Year

C5_Witness ==
    /\ pc = "done"
    /\ Len(list_time_by_month) >= 2
    /\ Len(nunique_by_year) >= 2
    /\ \E i, j \in DOMAIN list_time_by_artist :
         LET a == list_time_by_artist[i].index[1]
             b == list_time_by_artist[j].index[1]
         IN /\ i < j
            /\ GroupTotal("artist", a) = GroupTotal("artist", b)
            /\ FirstRow("artist", a) > FirstRow("artist", b)

\* C6: the distinct-artists table has exactly one row per year of the table,
\* holding the number of distinct artists among that year's rows, a missing
\* artist not counted.
C6_NuniquePerYear ==
    ("nunique_by_year" \in bound) =>
        /\ \A y \in {df[r]["Year"] : r \in DOMAIN df} :
             Cardinality({i \in DOMAIN nunique_by_year :
                             nunique_by_year[i].Year = y}) = 1
        /\ \A i \in DOMAIN nunique_by_year :
             /\ \E r \in DOMAIN df : df[r]["Year"] = nunique_by_year[i].Year
             /\ nunique_by_year[i].number_artists
                  = Cardinality({a \in NamesIn("artist") :
                       \E r \in DOMAIN df :
                          /\ df[r]["artist"] = a
                          /\ df[r]["Year"] = nunique_by_year[i].Year})

C6_Witness ==
    /\ dir = ScenarioDistinctArtists
    /\ nunique_by_year = <<[Year |-> 2022, number_artists |-> 2],
                           [Year |-> 2023, number_artists |-> 2]>>

\* The expected source columns that the loaded table lacks.
MissingSource ==
    IF AllParse
    THEN (DOMAIN RenameMap)
            \ UNION {ColumnsOf(InputFiles[i].recs) : i \in DOMAIN InputFiles}
    ELSE {}

\* The rename cell has been run.
RenameRan ==
    \/ pc \in {"agg_artist", "agg_album", "agg_song", "top_15", "agg_month",
               "plot_month", "nunique", "done"}
    \/ pc = "aborted" /\ err \in {"rename", "agg_artist", "agg_album", "agg_song"}

\* C7 as stated: with an expected source column absent, the run stops at the
\* rename cell, which raises.
C7_AbortsAtRename ==
    (MissingSource # {} /\ RenameRan) => (pc = "aborted" /\ err = "rename")

Cells == <<"load", "to_datetime", "add_date_cols", "add_duration_cols",
           "rename", "agg_artist", "agg_album", "agg_song", "top_15",
           "agg_month", "plot_month", "nunique", "done">>

Pos(c) == CHOOSE i \in DOMAIN Cells : Cells[i] = c

\* The first cell that groups by the alias of a missing column.
FirstUse ==
    IF ArtistCol \in MissingSource THEN "agg_artist"
    ELSE IF AlbumCol \in MissingSource THEN "agg_album"
    ELSE "agg_song"

\* The rankings displayed by the cells before a ranking cell.
ShownBefore(c) ==
    CASE c = "agg_artist" -> {}
      [] c = "agg_album" -> {"list_time_by_artist"}
      [] c = "agg_song" -> {"list_time_by_artist", "list_time_by_album"}

\* C7 amended: with an expected source column absent, the rename cell does
\* not raise; the run stops at the first ranking cell that groups by the
\* missing alias, after the rankings of the cells before it were displayed,
\* and no later cell is run.
C7_AbortsAtFirstUse ==
    (MissingSource # {} /\ RenameRan) =>
        /\ err # "rename"
        /\ IF pc = "aborted"
           THEN /\ err = FirstUse
                /\ shown = ShownBefore(FirstUse)
           ELSE Pos(pc) <= Pos(FirstUse)

C7_Witness ==
    /\ MissingSource = {AlbumCol}
    /\ pc = "aborted"
    /\ err = "agg_album"
    /\ shown = {"list_time_by_artist"}

\* A loaded record has a null timestamp.
NullTsLoaded ==
    /\ AllParse
    /\ \E i \in DOMAIN InputFiles : \E k \in DOMAIN InputFiles[i].recs :
         InputFiles[i].recs[k]["ts"] = <<>>

\* C8: a null timestamp does not abort the enrichment.
C8_NullTimestampTolerated ==
    NullTsLoaded =>
        ~(pc = "aborted" /\ err \in {"to_datetime", "add_date_cols",
                                     "add_duration_cols", "rename"})

\* C9: when an input .json file does not parse, the run stops in the loader:
\* no table is bound, not even from the files that parse, and nothing is
\* ever displayed.
C9_AllOrNothing ==
    (\E i \in DOMAIN InputFiles : ~InputFiles[i].parses) =>
        /\ pc \in {"load", "aborted"}
        /\ pc = "aborted" => err = "load"
        /\ bound = {}
        /\ shown = {}
        /\ df = <<>>

C9_Witness ==
    /\ pc = "aborted"
    /\ err = "load"
    /\ \E i, j \in DOMAIN InputFiles :
         /\ InputFiles[i].parses /\ InputFiles[i].recs # <<>>
         /\ ~InputFiles[j].parses

\* C10: the ranking that the top-15 selection sorts holds the full-precision
\* per-artist sums.
C10_RankingReadsFullPrecision ==
    ("top_15_artists" \in bound) =>
        \A i \in DOMAIN top_15_artists :
            top_15_artists[i].mins_played
                = GroupTotal("artist", top_15_artists[i].index[1])
====
